---------------------------- MODULE Spec2Model ----------------------------
(***************************************************************************)
(* A model of the RPC session manager of overlayed, src/rpc/manager.ts:    *)
(* the SocketManager that owns the websocket to the local Discord client,  *)
(* runs the READY / AUTHORIZE / AUTHENTICATE handshake, subscribes to the  *)
(* per-channel events and mirrors voice states into the application store. *)
(*                                                                         *)
(* One inbound frame is one call of the listener onMessage.  The listener  *)
(* is an async function: it runs synchronously up to the `await fetch` of  *)
(* the AUTHORIZE branch, where it is suspended until the HTTP exchange     *)
(* settles, and the socket calls the listener for the next frame without   *)
(* waiting for the promise of the previous call.                           *)
(***************************************************************************)
EXTENDS Naturals, Sequences, FiniteSets

\* ------------------------------------------------------------------ bounds

\* Inbound frames an arbitrary peer delivers in one session, the direct
\* calls of the application counted with them.
MaxInbound == 3

\* Direct calls of the application: channelEvents, tokenStore.setAccessToken.
MaxCalls == 1

\* Calls of init.
MaxInits == 1

\* Channel changes of the user at a protocol-conforming peer.
MaxSelects == 1

\* Channel changes of another user at a protocol-conforming peer.
MaxMoves == 2

\* ------------------------------------------------------------- JS values

\* JavaScript's null and undefined (a missing property, a dropped JSON key).
Null == "null"
Absent == "absent"

\* JavaScript's truthiness of a string-or-missing value.
Truthy(v) == v \notin {Null, Absent, ""}

Users == {"u1", "u2"}
Channels == {"c1", "c2"}
Tokens == {"t1", "t2"}
Codes == {"code1"}

\* ------------------------------------------------------ program constants

STREAM_KIT_APP_ID == "207646673902501888"

\* The per-channel events with VOICE_STATE_DELETE listed once.
SUBSCRIBABLE_EVENTS_deduplicated ==
  << "SPEAKING_START", "SPEAKING_STOP", "VOICE_STATE_CREATE",
     "VOICE_STATE_DELETE" >>

SUBSCRIBABLE_EVENTS ==
  << "SPEAKING_START", "SPEAKING_STOP", "VOICE_STATE_CREATE",
     "VOICE_STATE_DELETE", "VOICE_STATE_DELETE" >>

\* -------------------------------------------------------- inbound frames

\* The data object of an inbound payload.  isNull: the payload's data is
\* null.  The other fields are the properties the handler reads; a property
\* the payload does not have is Absent.  A user object is identified with
\* its id, a voice state with [id |-> data.user.id, mute |-> data.mute].
NoData ==
  [isNull |-> TRUE, code |-> Absent, id |-> Absent, voice_states |-> << >>,
   user |-> Absent, user_id |-> Absent, channel_id |-> Absent, mute |-> FALSE]

EmptyData == [NoData EXCEPT !.isNull = FALSE]

\* A websocket message: its type, and for a text message the parsed JSON.
Frame(type, cmd, evt, data) ==
  [type |-> type, cmd |-> cmd, evt |-> evt, data |-> data]

Event(evt, data) == Frame("Text", "DISPATCH", evt, data)
Response(cmd, data) == Frame("Text", cmd, Null, data)

VoiceState(u, mute) == [id |-> u, mute |-> mute]

\* The voice-state lists a GET_SELECTED_VOICE_CHANNEL response carries here.
VoiceStateLists ==
  { << >>,
    << VoiceState("u1", FALSE) >>,
    << VoiceState("u2", TRUE), VoiceState("u1", FALSE) >> }

ReadyFrame == Event("READY", EmptyData)
AuthorizeFrame(c) == Response("AUTHORIZE", [EmptyData EXCEPT !.code = c])
AuthenticateFrame(u) == Response("AUTHENTICATE", [EmptyData EXCEPT !.user = u])
SelectedChannelFrame(c, l) ==
  Response("GET_SELECTED_VOICE_CHANNEL",
           [EmptyData EXCEPT !.id = c, !.voice_states = l])
NoSelectedChannelFrame == Response("GET_SELECTED_VOICE_CHANNEL", NoData)
SpeakingFrame(evt, u) == Event(evt, [EmptyData EXCEPT !.user_id = u])
VoiceStateDeleteFrame(u) ==
  Event("VOICE_STATE_DELETE", [EmptyData EXCEPT !.user = u])
VoiceStateCreateFrame(u, mute) ==
  Event("VOICE_STATE_CREATE", [EmptyData EXCEPT !.user = u, !.mute = mute])
GetChannelFrame(c) == Response("GET_CHANNEL", [EmptyData EXCEPT !.id = c])
ChannelSelectFrame(c) ==
  Event("VOICE_CHANNEL_SELECT", [EmptyData EXCEPT !.channel_id = c])
SubscribeAckFrame == Response("SUBSCRIBE", EmptyData)
\* The rejection of a token: the response carries evt ERROR and, as data,
\* a code and a message, no user.
AuthenticateErrorFrame == Frame("Text", "AUTHENTICATE", "ERROR", EmptyData)
BinaryFrame == Frame("Binary", Absent, Absent, NoData)
OtherFrame == Event("VOICE_SETTINGS_UPDATE", EmptyData)

\* What an arbitrary peer delivers here: frames of the protocol for every
\* branch of the handler, an acknowledgement, an event without a branch and
\* a non-text frame.
InboundFrames ==
  {ReadyFrame, SubscribeAckFrame, BinaryFrame, OtherFrame,
   NoSelectedChannelFrame, AuthorizeFrame("code1"), GetChannelFrame("c1"),
   AuthenticateFrame("u1"), AuthenticateFrame("u2"),
   SelectedChannelFrame("c1", << VoiceState("u1", FALSE) >>),
   SelectedChannelFrame("c2", << VoiceState("u2", TRUE),
                                 VoiceState("u1", FALSE) >>),
   SpeakingFrame("SPEAKING_START", "u1"), SpeakingFrame("SPEAKING_STOP", "u1"),
   SpeakingFrame("SPEAKING_START", "u2"),
   VoiceStateDeleteFrame("u1"),
   VoiceStateCreateFrame("u1", TRUE), VoiceStateCreateFrame("u2", FALSE),
   ChannelSelectFrame("c2"), ChannelSelectFrame(Null)}

\* ------------------------------------------------------------------ state

VARIABLES
  token,           \* TokenStore: localStorage["discord_access_token"]
  sent,            \* the payloads written to the socket, in order
  uuids,           \* the number of uuid.v4() calls made so far
  me,              \* store: the current user
  users,           \* store: the membership, user id -> entry
  currentChannel,  \* store: the current channel id
  log,             \* the payloads given to console.log, in order
  handled,         \* the calls of the listener, in order: the frame, and
                   \* what had been sent and answered when the call began
  waiting,         \* the calls of the listener suspended at `await fetch`
  settled,         \* the HTTP exchanges that have settled, in order
  failed,          \* the calls of the listener that ended by throwing
  answered,        \* peer: how many of the sent requests it has answered
  peerChannel,     \* peer: the voice channel the user (u1) is in
  selects,         \* peer: how often the user has changed the channel
  otherChannel,    \* peer: the voice channel another user (u2) is in
  moves,           \* peer: how often the other user has changed the channel
  socket,          \* this.socket: null until init has connected
  calls,           \* the direct calls of the application, in their order
  inits,           \* how often init was called: the token store is set
  pending          \* the connections begun by init and not yet settled

vars ==
  << token, sent, uuids, me, users, currentChannel, log, handled, waiting,
     settled, failed, answered, peerChannel, selects, otherChannel, moves,
     socket, calls, inits, pending >>

\* The part of the state a call of the listener reads and writes, with
\* thrown: the call has ended by an exception.
Machine ==
  [token |-> token, sent |-> sent, uuids |-> uuids, me |-> me,
   users |-> users, currentChannel |-> currentChannel, log |-> log,
   socket |-> socket, thrown |-> FALSE]

\* ------------------------------------------------ the store (../store)

\* The membership without a user.
EmptyUsers == [u \in {} |-> [mute |-> FALSE, talking |-> FALSE]]

\* The membership entry made from a voice state: not speaking.
createUserStateItem(vs) == [mute |-> vs.mute, talking |-> FALSE]

RECURSIVE UsersOf(_)
\* The membership made from a voice-state list: one entry per user id, a
\* later item of the list replacing an earlier one of the same user.
UsersOf(list) ==
  IF list = << >> THEN EmptyUsers
  ELSE LET n == Len(list)
           init == UsersOf(SubSeq(list, 1, n - 1))
           last == list[n]
       IN [u \in DOMAIN init \cup {last.id} |->
             IF u = last.id THEN createUserStateItem(last) ELSE init[u]]

\* setUsers: the membership is replaced by the given voice states.
setUsers(m, list) == [m EXCEPT !.users = UsersOf(list)]

\* setCurrentChannel: the current channel id.
setCurrentChannel(m, channelId) == [m EXCEPT !.currentChannel = channelId]

\* setMe: the current user.
setMe(m, user) == [m EXCEPT !.me = user]

\* setTalking: the speaking flag of a member; a user that is no member has
\* no entry and gets none.
setTalking(m, id, talking) ==
  IF id \in DOMAIN m.users
  THEN [m EXCEPT !.users = [@ EXCEPT ![id] = [@ EXCEPT !.talking = talking]]]
  ELSE m

\* removeUser: the entry of the user is deleted.
removeUser(m, id) ==
  [m EXCEPT !.users = [u \in DOMAIN @ \ {id} |-> @[u]]]

\* addUser: the entry of the user of the given voice state (payload.data)
\* is inserted or replaced; data that names no user leave the membership
\* as it is.
addUser(m, data) ==
  IF data.isNull \/ data.user = Absent THEN m
  ELSE LET vs == [id |-> data.user, mute |-> data.mute]
       IN [m EXCEPT !.users =
             [u \in DOMAIN @ \cup {vs.id} |->
                IF u = vs.id THEN createUserStateItem(vs) ELSE @[u]]]

\* ------------------------------------------------------------ TokenStore

\* localStorage.getItem: the stored string, or null.
accessToken(m) == m.token

\* localStorage.setItem stores the string of its value: "undefined" for a
\* missing access_token.
setAccessToken(m, t) ==
  [m EXCEPT !.token = IF t = Absent THEN "undefined" ELSE t]

\* -------------------------------------------------------- SocketManager

\* The nonce of a payload that has none (uuids are numbered from 1).
NoNonce == 0

\* An outbound payload before send: the properties this program sets.
Payload(cmd, evt) ==
  [cmd |-> cmd, evt |-> evt, client_id |-> Absent, scopes |-> Absent,
   access_token |-> Absent, channel_id |-> Absent, nonce |-> NoNonce]

\* uuid.v4(): a value no earlier call returned, here the number of the call.
uuid_v4(m) == m.uuids + 1

\* send with the spread after the nonce: a nonce the caller gave is kept.
send_keepsNonce(m, payload) ==
  IF m.socket = Null THEN m
  ELSE LET n == uuid_v4(m)
       IN [m EXCEPT !.uuids = n,
                    !.sent = Append(@, IF payload.nonce = NoNonce
                                       THEN [payload EXCEPT !.nonce = n]
                                       ELSE payload)]

\* send: the payload with `nonce: uuid.v4()` spread over it, so a nonce the
\* caller gave is replaced, is written to the socket.  `this.socket?.send`
\* evaluates nothing of its argument while the socket is null.
send(m, payload) ==
  IF m.socket = Null THEN m
  ELSE LET n == uuid_v4(m)
       IN [m EXCEPT !.uuids = n,
                    !.sent = Append(@, [payload EXCEPT !.nonce = n])]

\* authenticate: the AUTHORIZE command.
authenticate(m) ==
  send(m, [Payload("AUTHORIZE", Absent) EXCEPT
             !.client_id = STREAM_KIT_APP_ID, !.scopes = "rpc"])

\* login: the AUTHENTICATE command with the access token.
login(m, t) ==
  send(m, [Payload("AUTHENTICATE", Absent) EXCEPT !.access_token = t])

requestUserChannel(m) == send(m, Payload("GET_SELECTED_VOICE_CHANNEL", Absent))

RECURSIVE channelEventsFrom(_, _, _, _)
\* SUBSCRIBABLE_EVENTS.map from index i: each payload is built with a nonce
\* of its own (one uuid.v4() call) and handed to send.
channelEventsFrom(m, cmd, channelId, i) ==
  IF i > Len(SUBSCRIBABLE_EVENTS) THEN m
  ELSE LET n == uuid_v4(m)
           m1 == [m EXCEPT !.uuids = n]
           p == [Payload(cmd, SUBSCRIBABLE_EVENTS[i]) EXCEPT
                   !.channel_id = channelId, !.nonce = n]
       IN channelEventsFrom(send(m1, p), cmd, channelId, i + 1)

channelEvents(m, cmd, channelId) == channelEventsFrom(m, cmd, channelId, 1)

\* An exception ends the call of the listener.
Throw(m) == [m EXCEPT !.thrown = TRUE]

\* The READY branch without the look at the token store.
readyBranch_alwaysAuthorize(m, p) ==
  IF p.evt = "READY" THEN authenticate(m) ELSE m

\* if (payload.evt === READY): login with the cached token, or authorize.
readyBranch(m, p) ==
  IF p.evt = "READY"
  THEN IF Truthy(accessToken(m)) THEN login(m, accessToken(m))
       ELSE authenticate(m)
  ELSE m

\* The AUTHORIZE branch storing the token without logging in with it.
authorizeBranch_noLogin(m, res) ==
  IF res.rejected THEN Throw(m)
  ELSE setAccessToken(m, res.access_token)

\* The AUTHORIZE branch logging in with the token read before the write.
authorizeBranch_staleToken(m, res) ==
  IF res.rejected THEN Throw(m)
  ELSE login(setAccessToken(m, res.access_token), accessToken(m))

\* The AUTHORIZE branch after `await fetch`: res is the settled exchange,
\* rejected, or resolved with res.data.access_token (Absent when the
\* response body has none).
authorizeBranch(m, res) ==
  IF res.rejected THEN Throw(m)
  ELSE login(setAccessToken(m, res.access_token), res.access_token)

\* The GET_SELECTED_VOICE_CHANNEL branch without the call of setUsers.
selectedVoiceChannelBranch_keepsUsers(m, p) ==
  IF p.cmd = "GET_SELECTED_VOICE_CHANNEL"
  THEN IF p.data.isNull THEN Throw(m)
       ELSE setCurrentChannel(channelEvents(m, "SUBSCRIBE", p.data.id),
                              p.data.id)
  ELSE m

\* if (payload.cmd === GET_SELECTED_VOICE_CHANNEL)
selectedVoiceChannelBranch(m, p) ==
  IF p.cmd = "GET_SELECTED_VOICE_CHANNEL"
  THEN IF p.data.isNull THEN Throw(m)
       ELSE setCurrentChannel(
              setUsers(channelEvents(m, "SUBSCRIBE", p.data.id),
                       p.data.voice_states),
              p.data.id)
  ELSE m

\* The AUTHENTICATE branch falling back to a fresh authorization when the
\* token was rejected.
authenticateBranch_reauthorizes(m, p) ==
  IF p.cmd = "AUTHENTICATE"
  THEN IF p.evt = "ERROR" THEN authenticate(m)
       ELSE LET m1 == send(requestUserChannel(m),
                           Payload("SUBSCRIBE", "VOICE_CHANNEL_SELECT"))
            IN IF p.data.isNull THEN Throw(m1) ELSE setMe(m1, p.data.user)
  ELSE m

\* The AUTHENTICATE branch without the VOICE_CHANNEL_SELECT subscription.
authenticateBranch_noSubscribe(m, p) ==
  IF p.cmd = "AUTHENTICATE"
  THEN LET m1 == requestUserChannel(m)
       IN IF p.data.isNull THEN Throw(m1) ELSE setMe(m1, p.data.user)
  ELSE m

\* if (payload?.cmd === AUTHENTICATE)
authenticateBranch(m, p) ==
  IF p.cmd = "AUTHENTICATE"
  THEN LET m1 == send(requestUserChannel(m),
                      Payload("SUBSCRIBE", "VOICE_CHANNEL_SELECT"))
       IN IF p.data.isNull THEN Throw(m1) ELSE setMe(m1, p.data.user)
  ELSE m

\* The speaking branch passing isSpeaking as it is computed.
speakingBranch_inverted(m, p) ==
  IF p.evt \in {"SPEAKING_START", "SPEAKING_STOP"}
  THEN LET isSpeaking == p.evt # "SPEAKING_START"
       IN IF p.data.isNull THEN Throw(m)
          ELSE setTalking(m, p.data.user_id, isSpeaking)
  ELSE m

\* if (payload.evt === SPEAKING_START || payload.evt === SPEAKING_STOP)
speakingBranch(m, p) ==
  IF p.evt \in {"SPEAKING_START", "SPEAKING_STOP"}
  THEN LET isSpeaking == p.evt # "SPEAKING_START"
       IN IF p.data.isNull THEN Throw(m)
          ELSE setTalking(m, p.data.user_id, ~isSpeaking)
  ELSE m

\* The VOICE_STATE_DELETE branch reading data.user_id, which the event
\* does not have.
voiceStateDeleteBranch_wrongId(m, p) ==
  IF p.evt = "VOICE_STATE_DELETE"
  THEN IF p.data.isNull THEN Throw(m)
       ELSE removeUser(m, p.data.user_id)
  ELSE m

\* if (payload.evt === VOICE_STATE_DELETE)
voiceStateDeleteBranch(m, p) ==
  IF p.evt = "VOICE_STATE_DELETE"
  THEN IF p.data.isNull \/ p.data.user = Absent THEN Throw(m)
       ELSE removeUser(m, p.data.user)
  ELSE m

\* if (payload.evt === VOICE_STATE_CREATE)
voiceStateCreateBranch(m, p) ==
  IF p.evt = "VOICE_STATE_CREATE"
  THEN addUser(m, p.data)
  ELSE m

\* The GET_CHANNEL branch requesting the channel of the response again.
getChannelBranch_requestsChannelAgain(m, p) ==
  IF p.cmd = "GET_CHANNEL"
  THEN IF p.data.isNull THEN Throw(m)
       ELSE send(requestUserChannel(m),
                 [Payload("GET_CHANNEL", Absent) EXCEPT
                    !.channel_id = p.data.id])
  ELSE m

\* The GET_CHANNEL branch also taking the current channel from the response.
getChannelBranch_setsChannel(m, p) ==
  IF p.cmd = "GET_CHANNEL"
  THEN setCurrentChannel(requestUserChannel(m), p.data.id)
  ELSE m

\* if (payload.cmd === GET_CHANNEL)
getChannelBranch(m, p) ==
  IF p.cmd = "GET_CHANNEL" THEN requestUserChannel(m) ELSE m

\* The VOICE_CHANNEL_SELECT branch without the test of the channel id.
channelSelectBranch_alwaysGetChannel(m, p) ==
  IF p.evt = "VOICE_CHANNEL_SELECT"
  THEN LET m1 == requestUserChannel(m)
       IN IF p.data.isNull THEN Throw(m1)
          ELSE send(setCurrentChannel(m1, p.data.channel_id),
                    [Payload("GET_CHANNEL", Absent) EXCEPT
                       !.channel_id = p.data.channel_id])
  ELSE m

\* if (payload.evt === VOICE_CHANNEL_SELECT)
channelSelectBranch(m, p) ==
  IF p.evt = "VOICE_CHANNEL_SELECT"
  THEN LET m1 == requestUserChannel(m)
       IN IF p.data.isNull THEN Throw(m1)
          ELSE LET m2 == setCurrentChannel(m1, p.data.channel_id)
               IN IF Truthy(p.data.channel_id)
                  THEN send(m2, [Payload("GET_CHANNEL", Absent) EXCEPT
                                   !.channel_id = p.data.channel_id])
                  ELSE m2
  ELSE m

\* The payload satisfies the condition of a dispatch branch.
MatchesBranch(p) ==
  \/ p.evt \in {"READY", "SPEAKING_START", "SPEAKING_STOP",
                 "VOICE_STATE_DELETE", "VOICE_STATE_CREATE",
                 "VOICE_CHANNEL_SELECT"}
  \/ p.cmd \in {"AUTHORIZE", "GET_SELECTED_VOICE_CHANNEL", "AUTHENTICATE",
                 "GET_CHANNEL"}

\* The log as the else of the dispatch: only a payload no branch matched.
logBranch_onlyUnmatched(m, p) ==
  IF p.cmd \notin {"SUBSCRIBE", "AUTHENTICATE"} /\ ~MatchesBranch(p)
  THEN [m EXCEPT !.log = Append(@, p)]
  ELSE m

\* if (![SUBSCRIBE, AUTHENTICATE].includes(payload.cmd)) console.log(payload)
logBranch(m, p) ==
  IF p.cmd \notin {"SUBSCRIBE", "AUTHENTICATE"}
  THEN [m EXCEPT !.log = Append(@, p)]
  ELSE m

\* A branch is skipped once the call has thrown.
Then(m, next) == IF m.thrown THEN m ELSE next

\* onMessage after the AUTHORIZE branch, to its end.
onMessageRest(m, p) ==
  LET m1 == Then(m, selectedVoiceChannelBranch(m, p))
      m2 == Then(m1, authenticateBranch(m1, p))
      m3 == Then(m2, speakingBranch(m2, p))
      m4 == Then(m3, voiceStateDeleteBranch(m3, p))
      m5 == Then(m4, voiceStateCreateBranch(m4, p))
      m6 == Then(m5, getChannelBranch(m5, p))
      m7 == Then(m6, channelSelectBranch(m6, p))
  IN Then(m7, logBranch(m7, p))

\* A listener that also awaits in the GET_CHANNEL branch.
awaitsFetch_alsoGetChannel(p) == p.cmd \in {"AUTHORIZE", "GET_CHANNEL"}

\* The call of the listener awaits the HTTP exchange: the AUTHORIZE branch
\* is taken and reading the code did not throw.
awaitsFetch(p) == p.cmd = "AUTHORIZE"

\* onMessage from its start to the `await fetch`, or to its end when the
\* AUTHORIZE branch is not taken.  A non-text message returns at once.
onMessageStart(m, p) ==
  IF p.type # "Text" THEN [m |-> m, suspended |-> FALSE]
  ELSE LET m1 == readyBranch(m, p)
       IN IF awaitsFetch(p)
          THEN IF p.data.isNull
               THEN [m |-> Throw(m1), suspended |-> FALSE]
               ELSE [m |-> m1, suspended |-> TRUE]
          ELSE [m |-> onMessageRest(m1, p), suspended |-> FALSE]

\* onMessage from the settled `await fetch` to its end.
onMessageResume(m, p, res) ==
  LET m1 == authorizeBranch(m, res)
  IN Then(m1, onMessageRest(m1, p))

\* ---------------------------------------------------------------- actions

\* The HTTP exchange settles: the promise is rejected (no connection), or
\* resolved with a body that holds an access token or none (an error
\* status: the tauri client resolves for every status).
FetchResults ==
  {[rejected |-> TRUE, access_token |-> Absent]}
    \cup {[rejected |-> FALSE, access_token |-> t] : t \in Tokens \cup {Absent}}

\* The manager as constructed: no socket yet, the store as created, the
\* token a previous run may have left in the local storage.
Init ==
  /\ token \in {Null, "t1"}
  /\ sent = << >>
  /\ uuids = 0
  /\ me = Null
  /\ users = EmptyUsers
  /\ currentChannel = Null
  /\ log = << >>
  /\ handled = << >>
  /\ waiting = {}
  /\ settled = << >>
  /\ failed = {}
  /\ answered = 0
  /\ peerChannel = Null
  /\ selects = 0
  /\ otherChannel = Null
  /\ moves = 0
  /\ socket = Null
  /\ calls = << >>
  /\ inits = 0
  /\ pending = 0

\* The state a call of the listener leaves.
Commit(m) ==
  /\ token' = m.token
  /\ sent' = m.sent
  /\ uuids' = m.uuids
  /\ me' = m.me
  /\ users' = m.users
  /\ currentChannel' = m.currentChannel
  /\ log' = m.log

\* The socket calls the listener with frame f: the call runs to its end or
\* to the `await fetch`.
Deliver(f) ==
  LET r == onMessageStart(Machine, f)
      k == Len(handled) + 1
  IN /\ Commit(r.m)
     /\ handled' = Append(handled, [frame |-> f, sentBefore |-> Len(sent),
                                    unanswered |-> Len(sent) - answered])
     /\ waiting' = IF r.suspended THEN waiting \cup {k} ELSE waiting
     /\ failed' = IF r.m.thrown THEN failed \cup {k} ELSE failed
     /\ UNCHANGED settled

\* The HTTP exchange of the suspended call k settles with res, and the call
\* runs to its end.
Settle(k, res) ==
  /\ k \in waiting
  /\ LET m == onMessageResume(Machine, handled[k].frame, res)
     IN /\ Commit(m)
        /\ failed' = IF m.thrown THEN failed \cup {k} ELSE failed
  /\ waiting' = waiting \ {k}
  /\ settled' = Append(settled, [call |-> k, res |-> res])
  /\ UNCHANGED << handled, answered, peerChannel, selects, otherChannel,
                  moves, socket,
                  calls, inits, pending >>

\* The frames handled and the direct calls made, the calls of init after
\* the first counted with them.
Steps ==
  Len(handled) + Len(calls) + (IF inits > 1 THEN inits - 1 ELSE 0)

\* init() to its `await WebSocket.connect`: the store and the token store
\* are taken and the connection is begun; the socket is as it was.
init ==
  /\ inits < MaxInits
  /\ inits = 0 \/ Steps < MaxInbound
  /\ inits' = inits + 1
  /\ pending' = pending + 1
  /\ UNCHANGED << token, sent, uuids, me, users, currentChannel, log,
                  handled, waiting, settled, failed, answered, peerChannel,
                  selects, otherChannel, moves, socket, calls >>

\* The connection is made and init() runs to its end: the socket is set
\* and the listener added to it.  After a later call of init the writes go
\* to the new socket, and nothing else of the state changes.
initConnected ==
  /\ pending > 0
  /\ pending' = pending - 1
  /\ socket' = "open"
  /\ UNCHANGED << token, sent, uuids, me, users, currentChannel, log,
                  handled, waiting, settled, failed, answered, peerChannel,
                  selects, otherChannel, moves, calls, inits >>

\* The connection fails (nothing listens at the port) and init() rejects:
\* the socket is as it was, no listener is added.
initRejected ==
  /\ pending > 0
  /\ pending' = pending - 1
  /\ UNCHANGED << token, sent, uuids, me, users, currentChannel, log,
                  handled, waiting, settled, failed, answered, peerChannel,
                  selects, otherChannel, moves, socket, calls, inits >>

\* Any peer: a frame of InboundFrames arrives at the listener init added.
Receive(f) ==
  /\ socket # Null
  /\ Steps < MaxInbound
  /\ Deliver(f)
  /\ UNCHANGED << answered, peerChannel, selects, otherChannel, moves,
                  socket,
                  calls, inits, pending >>

\* The application calls the public method channelEvents(cmd, channelId).
CallChannelEvents(cmd, c) ==
  /\ Len(calls) < MaxCalls
  /\ Steps < MaxInbound
  /\ Commit(channelEvents(Machine, cmd, c))
  /\ calls' = Append(calls, [op |-> "channelEvents", cmd |-> cmd, arg |-> c])
  /\ UNCHANGED << handled, waiting, settled, failed, answered, peerChannel,
                  selects, otherChannel, moves, socket,
                  inits, pending >>

\* The application calls setAccessToken of the public field tokenStore,
\* which is null until init is called.
CallSetAccessToken(t) ==
  /\ inits > 0
  /\ Len(calls) < MaxCalls
  /\ Steps < MaxInbound
  /\ Commit(setAccessToken(Machine, t))
  /\ calls' = Append(calls, [op |-> "setAccessToken", cmd |-> Absent,
                             arg |-> t])
  /\ UNCHANGED << handled, waiting, settled, failed, answered, peerChannel,
                  selects, otherChannel, moves, socket,
                  inits, pending >>

Next ==
  \/ init
  \/ initConnected
  \/ initRejected
  \/ \E f \in InboundFrames : Receive(f)
  \/ \E k \in waiting, res \in FetchResults : Settle(k, res)
  \/ \E cmd \in {"SUBSCRIBE", "UNSUBSCRIBE"}, c \in Channels :
       CallChannelEvents(cmd, c)
  \/ \E t \in Tokens : CallSetAccessToken(t)

Spec == Init /\ [][Next]_vars

\* ------------------------------------------- a protocol-conforming peer

\* The voice states of channel c at the peer: the other user, then the
\* user, when they are in it.
PeerVoiceStates(c) ==
  (IF otherChannel = c THEN << VoiceState("u2", TRUE) >> ELSE << >>)
    \o (IF peerChannel = c THEN << VoiceState("u1", FALSE) >> ELSE << >>)

\* The users of channel c at the peer.
PeerMembers(c) ==
  (IF otherChannel = c THEN {"u2"} ELSE {})
    \cup (IF peerChannel = c THEN {"u1"} ELSE {})

\* The peer's successful answer to a request: one response frame with the
\* request's command.  The selected voice channel is the one the user is
\* in, with its voice states, or null when the user is in none.
SuccessTo(req) ==
  CASE req.cmd = "AUTHORIZE" -> {AuthorizeFrame(c) : c \in Codes}
    [] req.cmd = "AUTHENTICATE" -> {AuthenticateFrame("u1")}
    [] req.cmd = "GET_SELECTED_VOICE_CHANNEL" ->
         IF peerChannel = Null THEN {NoSelectedChannelFrame}
         ELSE {SelectedChannelFrame(peerChannel, PeerVoiceStates(peerChannel))}
    [] req.cmd = "GET_CHANNEL" -> {GetChannelFrame(req.channel_id)}
    [] OTHER -> {SubscribeAckFrame}

\* The peer's answers to a request: the successful one, or for AUTHENTICATE
\* the rejection of the token.
ResponsesTo(req) ==
  SuccessTo(req)
    \cup (IF req.cmd = "AUTHENTICATE" THEN {AuthenticateErrorFrame} ELSE {})

\* The peer has acknowledged a subscription to VOICE_CHANNEL_SELECT.
SubscribedToChannelSelect ==
  \E i \in 1..answered :
    sent[i].cmd = "SUBSCRIBE" /\ sent[i].evt = "VOICE_CHANNEL_SELECT"

InitPeer ==
  /\ token \in {Null, "t1"}
  /\ sent = << >>
  /\ uuids = 0
  /\ me = Null
  /\ users = EmptyUsers
  /\ currentChannel = Null
  /\ log = << >>
  /\ handled = << >>
  /\ waiting = {}
  /\ settled = << >>
  /\ failed = {}
  /\ answered = 0
  /\ peerChannel \in {Null, "c1"}
  /\ selects = 0
  /\ otherChannel \in {Null, "c1"}
  /\ moves = 0
  /\ socket = Null
  /\ calls = << >>
  /\ inits = 0
  /\ pending = 0

\* The peer greets the new connection with READY.
PeerReady ==
  /\ socket # Null
  /\ handled = << >>
  /\ Deliver(ReadyFrame)
  /\ UNCHANGED << answered, peerChannel, selects, otherChannel, moves, socket,
                  calls, inits, pending >>

\* The peer answers the oldest request it has not answered, once.
PeerAnswer ==
  /\ answered < Len(sent)
  /\ \E f \in ResponsesTo(sent[answered + 1]) : Deliver(f)
  /\ answered' = answered + 1
  /\ UNCHANGED << peerChannel, selects, otherChannel, moves, socket,
                  calls, inits, pending >>

\* The user changes the voice channel, or leaves voice, and the peer tells
\* the subscribed client.
PeerSelect(c) ==
  /\ selects < MaxSelects
  /\ SubscribedToChannelSelect
  /\ c # peerChannel
  /\ Deliver(ChannelSelectFrame(c))
  /\ peerChannel' = c
  /\ selects' = selects + 1
  /\ UNCHANGED << answered, otherChannel, moves, socket,
                  calls, inits, pending >>

\* The application starts the one session with the peer.
Start == inits = 0 /\ init

\* A session with a conforming peer: the application calls init once and
\* nothing else of the manager, the peer accepts the connection and greets
\* it.
NextPeer ==
  \/ Start
  \/ initConnected
  \/ PeerReady
  \/ PeerAnswer
  \/ \E c \in Channels \cup {Null} : PeerSelect(c)
  \/ \E k \in waiting, res \in FetchResults : Settle(k, res)

SpecPeer == InitPeer /\ [][NextPeer]_vars

\* The step of PeerReady as far as fairness needs it: the only step taken
\* before a frame was handled, and the READY it delivers sends a command.
Greeting == socket # Null /\ handled = << >> /\ uuids' = uuids + 1

\* The step of PeerAnswer as far as fairness needs it: the only step that
\* changes the number of answered requests.
Answering == answered < Len(sent) /\ answered' = answered + 1

\* The step of Settle as far as fairness needs it: the only step that
\* takes a call out of the suspended ones.
Settling == \E k \in waiting : waiting' = waiting \ {k}

\* Fair delivery: the greeting, the answer to an outstanding request and
\* the outcome of a running exchange eventually arrive.  The user is free
\* never to change the channel.
FairDelivery ==
  /\ WF_inits(Start)
  /\ WF_pending(initConnected)
  /\ WF_uuids(Greeting)
  /\ WF_answered(Answering)
  /\ WF_waiting(Settling)

\* The conforming peer with fair delivery.
SpecPeerFair == InitPeer /\ [][NextPeer]_vars /\ FairDelivery

\* The peer has acknowledged the subscription to event evt of channel c.
SubscribedTo(evt, c) ==
  \E i \in 1..answered :
    /\ sent[i].cmd = "SUBSCRIBE"
    /\ sent[i].evt = evt
    /\ sent[i].channel_id = c

\* The client's variables, which a step of the peer alone leaves.
clientVars ==
  << token, sent, uuids, me, users, currentChannel, log, handled, waiting,
     settled, failed >>

\* The other user joins channel c; the peer tells the clients subscribed
\* to VOICE_STATE_CREATE of c.
PeerOtherJoins(c) ==
  /\ moves < MaxMoves
  /\ otherChannel = Null
  /\ otherChannel' = c
  /\ moves' = moves + 1
  /\ IF SubscribedTo("VOICE_STATE_CREATE", c)
     THEN Deliver(VoiceStateCreateFrame("u2", TRUE))
     ELSE UNCHANGED clientVars
  /\ UNCHANGED << answered, peerChannel, selects, socket,
                  calls, inits, pending >>

\* The other user leaves its channel; the peer tells the clients subscribed
\* to VOICE_STATE_DELETE of it.
PeerOtherLeaves ==
  /\ moves < MaxMoves
  /\ otherChannel # Null
  /\ otherChannel' = Null
  /\ moves' = moves + 1
  /\ IF SubscribedTo("VOICE_STATE_DELETE", otherChannel)
     THEN Deliver(VoiceStateDeleteFrame("u2"))
     ELSE UNCHANGED clientVars
  /\ UNCHANGED << answered, peerChannel, selects, socket,
                  calls, inits, pending >>

\* The conforming peer with another user joining and leaving channels.
NextMembers ==
  \/ Start
  \/ initConnected
  \/ PeerReady
  \/ PeerAnswer
  \/ \E c \in Channels \cup {Null} : PeerSelect(c)
  \/ \E k \in waiting, res \in FetchResults : Settle(k, res)
  \/ \E c \in Channels : PeerOtherJoins(c)
  \/ PeerOtherLeaves

SpecMembers == InitPeer /\ [][NextMembers]_vars

\* The exchanges that resolve with an access token.
FetchTokens == {res \in FetchResults : res.access_token \in Tokens}

\* The peer answers the oldest request it has not answered with success.
PeerAnswerOk ==
  /\ answered < Len(sent)
  /\ \E f \in SuccessTo(sent[answered + 1]) : Deliver(f)
  /\ answered' = answered + 1
  /\ UNCHANGED << peerChannel, selects, otherChannel, moves, socket,
                  calls, inits, pending >>

\* A peer that answers every request with success and a token endpoint
\* that returns a token, with fair delivery.
NextLive ==
  \/ Start
  \/ initConnected
  \/ PeerReady
  \/ PeerAnswerOk
  \/ \E c \in Channels \cup {Null} : PeerSelect(c)
  \/ \E k \in waiting, res \in FetchTokens : Settle(k, res)

SpecLive == InitPeer /\ [][NextLive]_vars /\ FairDelivery

\* ----------------------------------------------------------- properties

\* The step is a call of the listener with a text frame.
Called == Len(handled') = Len(handled) + 1

\* The frame of the step's call.
CalledFrame == handled'[Len(handled')].frame

\* The payloads the step has written to the socket, in order.
NewSent == SubSeq(sent', Len(sent) + 1, Len(sent'))

\* The step has only added to what was sent.
SentGrows ==
  /\ Len(sent') >= Len(sent)
  /\ SubSeq(sent', 1, Len(sent)) = sent

\* The last call of the listener.
LastCall == handled[Len(handled)]

\* The commands of a sequence of payloads.
Cmds(ps) == [i \in DOMAIN ps |-> ps[i].cmd]

\* C1: on an inbound READY event, with a cached token exactly one
\* AUTHENTICATE command carrying that token is sent and no AUTHORIZE; with
\* no cached token exactly one AUTHORIZE command is sent and no
\* AUTHENTICATE.
C1_ReadyAuthenticatesOrAuthorizes ==
  [][(Called /\ CalledFrame.type = "Text" /\ CalledFrame.evt = "READY")
       => /\ SentGrows
          /\ Len(NewSent) = 1
          /\ IF token # Null
             THEN /\ NewSent[1].cmd = "AUTHENTICATE"
                  /\ NewSent[1].access_token = token
             ELSE /\ NewSent[1].cmd = "AUTHORIZE"
                  /\ NewSent[1].access_token = Absent
                  /\ NewSent[1].client_id = STREAM_KIT_APP_ID]_vars

\* A session in which READY was answered by AUTHORIZE without a token and,
\* after the exchange, a second READY by AUTHENTICATE with the cached token.
C1_Witness ==
  /\ Len(handled) >= 2
  /\ LastCall.frame.evt = "READY"
  /\ handled[1].frame.evt = "READY"
  /\ Len(sent) = LastCall.sentBefore + 1
  /\ sent[1].cmd = "AUTHORIZE"
  /\ sent[Len(sent)].cmd = "AUTHENTICATE"
  /\ sent[Len(sent)].access_token = token
  /\ token \in Tokens

\* The calls of channelEvents(SUBSCRIBE, ..) made after n payloads were sent:
\* each call sends the first of the per-channel events once.
SubscribesAfter(n) ==
  Cardinality({i \in (n + 1)..Len(sent) :
                 /\ sent[i].cmd = "SUBSCRIBE"
                 /\ sent[i].evt = SUBSCRIBABLE_EVENTS[1]
                 /\ sent[i].channel_id # Absent})

\* C2: with a peer that answers each request once, the handling that
\* follows one VOICE_CHANNEL_SELECT (received when no request was
\* unanswered, and the last one received) issues the per-channel subscribe
\* channelEvents(SUBSCRIBE, C) at most once.
C2_OneSubscribePerTransition ==
  \A i \in DOMAIN handled :
    (/\ handled[i].frame.evt = "VOICE_CHANNEL_SELECT"
     /\ handled[i].unanswered = 0
     /\ \A j \in (i + 1)..Len(handled) :
          handled[j].frame.evt # "VOICE_CHANNEL_SELECT")
      => SubscribesAfter(handled[i].sentBefore) <= 1

\* C3 as stated: the handling of a frame is complete before the handling
\* of a later frame begins, also while the HTTP exchange is awaited: no
\* call is suspended once a later call has begun.
C3_OneAtATime == \A k \in waiting : k = Len(handled)

\* C3 amended: the calls of the listener begin in arrival order and every
\* call runs to its end before a later one begins, except the call for an
\* AUTHORIZE response, which is the only one ever left incomplete: it is
\* suspended at the HTTP exchange while later frames are handled.
C3_OnlyAuthorizeSuspends ==
  /\ waiting \subseteq DOMAIN handled
  /\ \A k \in DOMAIN handled :
       k \in waiting => /\ handled[k].frame.cmd = "AUTHORIZE"
                        /\ k \notin failed

\* A later frame was handled, and sent commands, while the call for an
\* AUTHORIZE response was waiting for the HTTP exchange.
C3_Witness ==
  \E k \in waiting :
    /\ Len(handled) > k
    /\ Len(sent) > handled[k + 1].sentBefore

\* C4: when the code exchange resolves with an access token, that token is
\* written to the TokenStore and one AUTHENTICATE command carrying the same
\* token is sent.
C4_ExchangedTokenPersistedAndUsed ==
  [][(/\ Len(settled') = Len(settled) + 1
      /\ ~settled'[Len(settled')].res.rejected
      /\ settled'[Len(settled')].res.access_token \in Tokens)
       => /\ token' = settled'[Len(settled')].res.access_token
          /\ SentGrows
          /\ Len(NewSent) = 1
          /\ NewSent[1].cmd = "AUTHENTICATE"
          /\ NewSent[1].access_token = token']_vars

\* The exchange returned t2 while t1 was cached: t2 is stored and sent.
C4_Witness ==
  /\ settled # << >>
  /\ settled[Len(settled)].res.access_token = "t2"
  /\ token = "t2"
  /\ sent # << >>
  /\ sent[Len(sent)].cmd = "AUTHENTICATE"
  /\ sent[Len(sent)].access_token = "t2"
  /\ \E i \in DOMAIN sent : sent[i].access_token = "t1"

\* C5: on an AUTHENTICATE acknowledgement exactly one
\* GET_SELECTED_VOICE_CHANNEL request and exactly one SUBSCRIBE command for
\* VOICE_CHANNEL_SELECT are sent, and the store's current user becomes the
\* payload's user.
C5_AuthenticateAck ==
  [][(/\ Called
      /\ CalledFrame.type = "Text"
      /\ CalledFrame.cmd = "AUTHENTICATE"
      /\ ~CalledFrame.data.isNull)
       => /\ SentGrows
          /\ Cmds(NewSent) = << "GET_SELECTED_VOICE_CHANNEL", "SUBSCRIBE" >>
          /\ NewSent[1].evt = Absent
          /\ NewSent[2].evt = "VOICE_CHANNEL_SELECT"
          /\ NewSent[2].channel_id = Absent
          /\ me' = CalledFrame.data.user]_vars

\* The acknowledgement for u2 was handled after the one for u1.
C5_Witness ==
  /\ Len(handled) >= 2
  /\ LastCall.frame = AuthenticateFrame("u2")
  /\ handled[Len(handled) - 1].frame = AuthenticateFrame("u1")
  /\ me = "u2"
  /\ Len(sent) = LastCall.sentBefore + 2

\* The user ids of a voice-state list.
IdsOf(list) == {list[i].id : i \in DOMAIN list}

\* C6: on a GET_SELECTED_VOICE_CHANNEL response with channel id C and
\* voice-state list L, SUBSCRIBE commands scoped to C are sent for each of
\* the per-channel events, the membership becomes L (the users of L with
\* the entries of L, and no other user), and the current channel becomes C.
C6_SelectedVoiceChannel ==
  [][(/\ Called
      /\ CalledFrame.type = "Text"
      /\ CalledFrame.cmd = "GET_SELECTED_VOICE_CHANNEL"
      /\ ~CalledFrame.data.isNull)
       => LET C == CalledFrame.data.id
              L == CalledFrame.data.voice_states
          IN /\ SentGrows
             /\ \A i \in DOMAIN NewSent :
                  /\ NewSent[i].cmd = "SUBSCRIBE"
                  /\ NewSent[i].channel_id = C
             /\ \A e \in {"SPEAKING_START", "SPEAKING_STOP",
                           "VOICE_STATE_CREATE", "VOICE_STATE_DELETE"} :
                  \E i \in DOMAIN NewSent : NewSent[i].evt = e
             /\ DOMAIN users' = IdsOf(L)
             /\ \A i \in DOMAIN L : users'[L[i].id].mute = L[i].mute
             /\ currentChannel' = C]_vars

\* The response for c1 with u1 alone was handled when u2 was a member.
C6_Witness ==
  /\ Len(handled) >= 2
  /\ LastCall.frame =
       SelectedChannelFrame("c1", << VoiceState("u1", FALSE) >>)
  /\ handled[Len(handled) - 1].frame.cmd = "GET_SELECTED_VOICE_CHANNEL"
  /\ handled[Len(handled) - 1].frame.data.id = "c2"
  /\ DOMAIN users = {"u1"}
  /\ currentChannel = "c1"
  /\ Len(sent) > LastCall.sentBefore

\* C7: every payload written to the socket carries one nonce, the one send
\* generated for it (the latest uuid when it is written, not the one
\* channelEvents put into the payload), and no two payloads of the session
\* carry the same nonce.
C7_FreshNonce ==
  /\ \A i \in DOMAIN sent : sent[i].nonce \in 1..uuids
  /\ \A i, j \in DOMAIN sent : i # j => sent[i].nonce # sent[j].nonce
  /\ sent # << >> => sent[Len(sent)].nonce = uuids

\* channelEvents has run after other sends: more uuids than payloads.
C7_Witness ==
  /\ Len(sent) >= 7
  /\ uuids > Len(sent)
  /\ \E i \in DOMAIN sent : sent[i].evt = "VOICE_STATE_DELETE"
  /\ \E i \in DOMAIN sent : sent[i].cmd = "GET_CHANNEL"

\* C8: a VOICE_CHANNEL_SELECT event with channel id X sets the current
\* channel to X and sends a GET_SELECTED_VOICE_CHANNEL request and a
\* GET_CHANNEL request with channel_id X; without a channel id the current
\* channel becomes null and only the GET_SELECTED_VOICE_CHANNEL request is
\* sent.
C8_ChannelSelect ==
  [][(/\ Called
      /\ CalledFrame.type = "Text"
      /\ CalledFrame.evt = "VOICE_CHANNEL_SELECT"
      /\ ~CalledFrame.data.isNull)
       => LET X == CalledFrame.data.channel_id
          IN /\ SentGrows
             /\ currentChannel' = X
             /\ IF X \in Channels
                THEN /\ Cmds(NewSent) =
                          << "GET_SELECTED_VOICE_CHANNEL", "GET_CHANNEL" >>
                     /\ NewSent[2].channel_id = X
                ELSE /\ X = Null
                     /\ Cmds(NewSent) = << "GET_SELECTED_VOICE_CHANNEL" >>
             /\ NewSent[1].channel_id = Absent]_vars

\* The user joined c2 and then left voice.
C8_Witness ==
  /\ Len(handled) >= 2
  /\ LastCall.frame = ChannelSelectFrame(Null)
  /\ handled[Len(handled) - 1].frame = ChannelSelectFrame("c2")
  /\ currentChannel = Null
  /\ Len(sent) = LastCall.sentBefore + 1
  /\ sent[Len(sent) - 1].cmd = "GET_CHANNEL"
  /\ sent[Len(sent) - 1].channel_id = "c2"

\* Frame f is a speaking event for user u.
SpeakingOf(f, u) ==
  /\ f.type = "Text"
  /\ f.evt \in {"SPEAKING_START", "SPEAKING_STOP"}
  /\ f.data.user_id = u

\* Frame f has a branch that changes the membership.
ChangesMembership(f) ==
  \/ f.cmd = "GET_SELECTED_VOICE_CHANNEL"
  \/ f.evt \in {"VOICE_STATE_DELETE", "VOICE_STATE_CREATE"}

\* C9: the speaking flag of a member U is true after SPEAKING_START for U
\* and false after SPEAKING_STOP for U: after any sequence of speaking
\* events it is the kind of the last one received for U.
C9_SpeakingFlag ==
  \A u \in DOMAIN users :
    \A i \in DOMAIN handled :
      (/\ SpeakingOf(handled[i].frame, u)
       /\ \A j \in (i + 1)..Len(handled) :
            /\ ~SpeakingOf(handled[j].frame, u)
            /\ ~ChangesMembership(handled[j].frame))
        => users[u].talking = (handled[i].frame.evt = "SPEAKING_START")

\* u1 stopped and then started speaking.
C9_Witness ==
  /\ Len(handled) >= 3
  /\ LastCall.frame = SpeakingFrame("SPEAKING_START", "u1")
  /\ handled[Len(handled) - 1].frame = SpeakingFrame("SPEAKING_STOP", "u1")
  /\ "u1" \in DOMAIN users
  /\ users["u1"].talking

\* C10: VOICE_STATE_DELETE for user U removes U from the membership, and
\* VOICE_STATE_CREATE for U inserts U's entry or replaces it by the one of
\* the event; the entries of the other users stay as they are.
C10_VoiceStateDeleteCreate ==
  [][(/\ Called
      /\ CalledFrame.type = "Text"
      /\ CalledFrame.evt \in {"VOICE_STATE_DELETE", "VOICE_STATE_CREATE"}
      /\ ~CalledFrame.data.isNull)
       => LET U == CalledFrame.data.user
          IN /\ \A v \in DOMAIN users \ {U} :
                  v \in DOMAIN users' /\ users'[v] = users[v]
             /\ IF CalledFrame.evt = "VOICE_STATE_DELETE"
                THEN DOMAIN users' = DOMAIN users \ {U}
                ELSE /\ DOMAIN users' = DOMAIN users \cup {U}
                     /\ users'[U].mute = CalledFrame.data.mute]_vars

\* u1 was removed and created again, muted, while u2 stayed a member.
C10_Witness ==
  /\ Len(handled) >= 3
  /\ LastCall.frame = VoiceStateCreateFrame("u1", TRUE)
  /\ handled[Len(handled) - 1].frame = VoiceStateDeleteFrame("u1")
  /\ DOMAIN users = {"u1", "u2"}
  /\ users["u1"].mute
  /\ users["u2"].mute

\* The step leaves the store as it is.
StoreUnchanged ==
  /\ me' = me
  /\ users' = users
  /\ currentChannel' = currentChannel

\* C11: when the HTTP exchange fails (the request is rejected, or the
\* response carries no access token), nothing is done for that message: no
\* token is written, nothing is sent and the store is unchanged.
C11_FailedExchangeLeavesNoTrace ==
  [][(/\ Len(settled') = Len(settled) + 1
      /\ \/ settled'[Len(settled')].res.rejected
         \/ settled'[Len(settled')].res.access_token \notin Tokens)
       => /\ token' = token
          /\ sent' = sent
          /\ StoreUnchanged]_vars

\* The step sends five commands cmd, one per entry of the event list and in
\* its order, VOICE_STATE_DELETE twice, each scoped to channel c and each
\* with a nonce of its own.
SendsFive(cmd, c) ==
  /\ SentGrows
  /\ [i \in DOMAIN NewSent |-> NewSent[i].evt] =
       << "SPEAKING_START", "SPEAKING_STOP", "VOICE_STATE_CREATE",
          "VOICE_STATE_DELETE", "VOICE_STATE_DELETE" >>
  /\ \A i \in DOMAIN NewSent :
       /\ NewSent[i].cmd = cmd
       /\ NewSent[i].channel_id = c
       /\ NewSent[i].nonce # NoNonce
  /\ \A i, j \in DOMAIN NewSent :
       i # j => NewSent[i].nonce # NewSent[j].nonce

\* C13: channelEvents(cmd, C) sends five commands cmd, one per entry of the
\* event list and in its order, VOICE_STATE_DELETE twice, each scoped to C
\* and each with a nonce of its own: called with SUBSCRIBE for a
\* GET_SELECTED_VOICE_CHANNEL response, and called by the application with
\* SUBSCRIBE or UNSUBSCRIBE while the socket is connected.
C13_ChannelEventsSendsFive ==
  [][/\ (/\ Called
         /\ CalledFrame.type = "Text"
         /\ CalledFrame.cmd = "GET_SELECTED_VOICE_CHANNEL"
         /\ ~CalledFrame.data.isNull)
          => SendsFive("SUBSCRIBE", CalledFrame.data.id)
     /\ (/\ Len(calls') = Len(calls) + 1
         /\ calls'[Len(calls')].op = "channelEvents"
         /\ socket # Null)
          => SendsFive(calls'[Len(calls')].cmd, calls'[Len(calls')].arg)]_vars

\* The five SUBSCRIBE commands for c2 were sent for a response, the last
\* two for VOICE_STATE_DELETE, and then the application's call sent the
\* five UNSUBSCRIBE commands for c2.
C13_Witness ==
  /\ handled # << >>
  /\ LastCall.frame.cmd = "GET_SELECTED_VOICE_CHANNEL"
  /\ LastCall.frame.data.id = "c2"
  /\ Len(sent) = LastCall.sentBefore + 10
  /\ sent[Len(sent) - 5].cmd = "SUBSCRIBE"
  /\ sent[Len(sent) - 5].evt = "VOICE_STATE_DELETE"
  /\ sent[Len(sent) - 6].evt = "VOICE_STATE_DELETE"
  /\ sent[Len(sent) - 5].channel_id = "c2"
  /\ sent[Len(sent) - 5].nonce # sent[Len(sent) - 6].nonce
  /\ \A i \in (Len(sent) - 4)..Len(sent) :
       sent[i].cmd = "UNSUBSCRIBE" /\ sent[i].channel_id = "c2"

\* The dispatch of frame f names a store update.
UpdatesStore(f) ==
  /\ f.type = "Text"
  /\ \/ f.cmd \in {"GET_SELECTED_VOICE_CHANNEL", "AUTHENTICATE"}
     \/ f.evt \in {"SPEAKING_START", "SPEAKING_STOP", "VOICE_STATE_DELETE",
                    "VOICE_STATE_CREATE", "VOICE_CHANNEL_SELECT"}

\* C14: the store changes only in the call of the listener for a frame
\* whose dispatch names a store update: the calls for READY, an AUTHORIZE
\* response (also when its exchange settles), a GET_CHANNEL response, a
\* SUBSCRIBE acknowledgement and a non-text frame leave it unchanged.
C14_StoreChangedOnlyByItsBranches ==
  [][~StoreUnchanged => (Called /\ UpdatesStore(CalledFrame))]_vars

\* A GET_CHANNEL response was handled, and sent its request, with a user,
\* a member and a channel in the store.
C14_Witness ==
  /\ handled # << >>
  /\ LastCall.frame.cmd = "GET_CHANNEL"
  /\ Len(sent) = LastCall.sentBefore + 1
  /\ DOMAIN users # {}
  /\ currentChannel \in Channels

\* The call k of the listener has run to its end without throwing.
Completed(k) ==
  /\ handled[k].frame.type = "Text"
  /\ k \notin waiting
  /\ k \notin failed

\* How often payload f was logged.
Logged(f) == Cardinality({i \in DOMAIN log : log[i] = f})

\* C15 as stated: a text payload is logged if and only if it matched none
\* of the dispatch branches and is no SUBSCRIBE or AUTHENTICATE
\* acknowledgement.
C15_LogsOnlyUnmatched ==
  \A k \in DOMAIN handled :
    Completed(k) =>
      (Logged(handled[k].frame) > 0
         <=> /\ ~MatchesBranch(handled[k].frame)
             /\ handled[k].frame.cmd \notin {"SUBSCRIBE", "AUTHENTICATE"})

\* C15 amended: a text payload is logged, once, at the end of its call if
\* and only if its cmd is neither SUBSCRIBE nor AUTHENTICATE, whether or not
\* a dispatch branch matched it; a call that throws logs nothing.
C15_LogsAllButAcknowledgements ==
  /\ \A i \in DOMAIN log : \E k \in DOMAIN handled : handled[k].frame = log[i]
  /\ \A k \in DOMAIN handled :
       Logged(handled[k].frame) =
         Cardinality({j \in DOMAIN handled :
                        /\ handled[j].frame = handled[k].frame
                        /\ Completed(j)
                        /\ handled[j].frame.cmd \notin
                             {"SUBSCRIBE", "AUTHENTICATE"}})

\* READY, which has a branch, was logged, and so was an event without a
\* branch, while an acknowledgement was not.
C15_Witness ==
  /\ Len(handled) = 3
  /\ Len(log) = 2
  /\ log[1] = ReadyFrame
  /\ log[2] = OtherFrame
  /\ \E k \in DOMAIN handled : handled[k].frame = SubscribeAckFrame

\* C20: after VOICE_CHANNEL_SELECT without a channel id and the
\* GET_SELECTED_VOICE_CHANNEL response without data that follows it, the
\* current channel is null, the membership is empty and no per-channel
\* SUBSCRIBE was sent for them.
C20_LeavingVoiceClearsMirror ==
  (/\ Len(handled) >= 2
   /\ LastCall.frame = NoSelectedChannelFrame
   /\ handled[Len(handled) - 1].frame = ChannelSelectFrame(Null)
   /\ waiting = {})
    => /\ currentChannel = Null
       /\ users = EmptyUsers
       /\ \A i \in (handled[Len(handled) - 1].sentBefore + 1)..Len(sent) :
            sent[i].cmd # "SUBSCRIBE"

\* A rejection of the token has been handled.
Rejected == \E k \in DOMAIN handled : handled[k].frame = AuthenticateErrorFrame

\* The step sends no AUTHORIZE command.
NoNewAuthorize == \A i \in DOMAIN NewSent : NewSent[i].cmd # "AUTHORIZE"

\* C12: with a conforming peer that may reject the token, the call that
\* handles the rejection and every step after it send no AUTHORIZE command
\* and leave the cached token as it is; an AUTHORIZE command is sent only by
\* the call that handles READY while no token is cached.
C12_RejectionNotHandled ==
  [][/\ NoNewAuthorize
        \/ (Called /\ CalledFrame.evt = "READY" /\ ~Truthy(token))
     /\ (Rejected \/ (Called /\ CalledFrame = AuthenticateErrorFrame))
          => (NoNewAuthorize /\ token' = token)]_vars

\* A cached token was rejected, the rejection was handled and later frames
\* were: the token is still cached and no AUTHORIZE command was sent.
C12_Witness ==
  /\ Len(handled) >= 4
  /\ handled[2].frame = AuthenticateErrorFrame
  /\ token = "t1"
  /\ \A i \in DOMAIN sent : sent[i].cmd # "AUTHORIZE"

\* An AUTHENTICATE acknowledgement, the response that carries the user and
\* no error, was handled before command i was sent.
AcknowledgedBefore(i) ==
  \E k \in DOMAIN handled :
    /\ handled[k].frame.type = "Text"
    /\ handled[k].frame.cmd = "AUTHENTICATE"
    /\ handled[k].frame.evt # "ERROR"
    /\ ~handled[k].frame.data.isNull
    /\ handled[k].frame.data.user \in Users
    /\ handled[k].sentBefore < i

\* READY was handled before command i was sent.
ReadyBefore(i) ==
  \E k \in DOMAIN handled :
    /\ handled[k].frame.evt = "READY"
    /\ handled[k].sentBefore < i

\* C16: with a conforming peer, every AUTHENTICATE or AUTHORIZE command is
\* sent by the call that handles READY or later, and every
\* GET_SELECTED_VOICE_CHANNEL, GET_CHANNEL or SUBSCRIBE command by the call
\* that handles an AUTHENTICATE acknowledgement or later.
C16_HandshakeOrder ==
  \A i \in DOMAIN sent :
    /\ sent[i].cmd \in {"AUTHENTICATE", "AUTHORIZE"} => ReadyBefore(i)
    /\ sent[i].cmd \in {"GET_SELECTED_VOICE_CHANNEL", "GET_CHANNEL", "SUBSCRIBE"}
         => AcknowledgedBefore(i)

\* The Ready phase: the store's current user is set and the selected voice
\* channel has been requested.
Ready ==
  /\ me \in Users
  /\ \E i \in DOMAIN sent : sent[i].cmd = "GET_SELECTED_VOICE_CHANNEL"

\* C17: with a peer that answers every request with success, a token
\* endpoint that returns a token and fair delivery, the session reaches the
\* Ready phase, with a cached token at READY and without one.
C17_EventuallyReady == <>Ready

\* The Ready phase was reached from a session without a cached token: the
\* first command was AUTHORIZE and the exchanged token is cached.
C17_Witness ==
  /\ Ready
  /\ sent[1].cmd = "AUTHORIZE"
  /\ token \in Tokens

\* No request is outstanding and no call of the listener is suspended.
Quiescent == answered = Len(sent) /\ waiting = {}

\* The commands of a handshake at most: AUTHORIZE, AUTHENTICATE,
\* GET_SELECTED_VOICE_CHANNEL, SUBSCRIBE to VOICE_CHANNEL_SELECT, and the
\* per-channel subscriptions.
HandshakeCommands == 4 + Len(SUBSCRIBABLE_EVENTS)

\* The commands a VOICE_CHANNEL_SELECT starts at most:
\* GET_SELECTED_VOICE_CHANNEL and GET_CHANNEL, the request the GET_CHANNEL
\* response sends, and the per-channel subscriptions of the two responses.
SwitchCommands == 3 + 2 * Len(SUBSCRIBABLE_EVENTS)

\* C18: with a peer that answers each request once, under fair delivery,
\* the commands sent stay within those of the handshake and those each
\* VOICE_CHANNEL_SELECT starts, and the exchange comes to rest: from some
\* point on no request is outstanding.
C18_SwitchQuiesces ==
  /\ [](Len(sent) <= HandshakeCommands + selects * SwitchCommands)
  /\ <>[]Quiescent

\* A switch to a channel has run through: the GET_CHANNEL response was
\* handled, its request answered with the subscriptions, and all is at rest.
C18_Witness ==
  /\ selects = 1
  /\ Quiescent
  /\ \E k \in DOMAIN handled :
       /\ handled[k].frame.cmd = "GET_CHANNEL"
       /\ Len(sent) >= handled[k].sentBefore + 1 + Len(SUBSCRIBABLE_EVENTS)

\* The channels the peer has acknowledged a voice-state subscription for.
SubscribedChannels ==
  {c \in Channels : SubscribedTo("VOICE_STATE_CREATE", c)}

\* C19: in a quiescent state after the user has switched from a channel A,
\* whose subscriptions the peer acknowledged, to the channel B the store
\* holds, no user of the membership is at the peer in another channel than
\* B.
C19_MembersOfCurrentChannel ==
  (/\ Quiescent
   /\ selects >= 1
   /\ currentChannel \in Channels
   /\ currentChannel = peerChannel
   /\ SubscribedChannels \ {currentChannel} # {})
    => \A u \in DOMAIN users :
         \A c \in Channels \ {currentChannel} : u \notin PeerMembers(c)

=============================================================================
